---- MODULE Spec2Model ----
(***************************************************************************)
(* Task leasing and financial ledger of the Avito Tasker Mini App.         *)
(*                                                                         *)
(* The state is the relational store declared in backend/schema.sql.  The  *)
(* moderation operations are the SQL scripts of backend/MODERATION.md,     *)
(* each one a BEGIN ... COMMIT transaction.  The user-facing handlers      *)
(* (assign, submit, auto-return, withdrawal request) belong to the Python  *)
(* backend; they are modelled from the specification and driven by the     *)
(* client flow of frontend/src/pages/TasksPage.tsx.                        *)
(*                                                                         *)
(* Timestamps are abstracted: a deadline is the flag "expired", and the    *)
(* columns updated_at and processed_at the scripts write are taken to      *)
(* exist (schema.sql declares no users.updated_at).                        *)
(***************************************************************************)
EXTENDS Integers, Sequences, FiniteSets, TLC

(* ---------------------------------------------------------------------- *)
(* Bounds of the model                                                     *)
(* ---------------------------------------------------------------------- *)
NumUsers == 2
NumTasks == 2
NumSessions == 2
NumAdmins == 2
MaxAssignments == 3
MaxLedgerAssignments == 2
MaxWithdrawals == 2
MaxCredits == 2
MaxPoolCap == 2
MaxScreenshots == 1
MaxSubmits == 2

(* ---------------------------------------------------------------------- *)
(* Program constants                                                       *)
(* ---------------------------------------------------------------------- *)
MAX_BALANCE == 2000000000
SIMPLE_TASK_PRICE == 50
PHONE_TASK_PRICE == 150
MIN_WITHDRAWAL == 100
MAX_ACTIVE_TASKS == 10
INT4_MAX == 2147483647

NULL == 0

Users == 1..NumUsers
Tasks == 1..NumTasks
Sessions == 1..NumSessions
Admins == 1..NumAdmins
AssignmentIds == 1..MaxAssignments
WithdrawalIds == 1..MaxWithdrawals

VARIABLES
    users,                   \* users: telegram_id -> main_balance, referral_balance
    referred_by,             \* users.referred_by (NULL when not referred)
    tasks,                   \* tasks.is_available
    task_assignments,        \* task_assignments rows by id
    withdrawals,             \* withdrawals rows by id
    referral_earnings,       \* referral_earnings rows, in insertion order
    unique_task_commission,  \* is the unique_task_commission constraint in force
    max_active_tasks,        \* config.MAX_ACTIVE_TASKS of the running server
    sess,                    \* client sessions of TasksPage
    aw,                      \* admin sessions inside the Approve Withdrawal script
    nCredits,                \* number of committed crediting scripts (model bound)
    page                     \* a TaskDetailPage of a client: its state, ref and requests

vars == <<users, referred_by, tasks, task_assignments, withdrawals,
          referral_earnings, unique_task_commission, max_active_tasks, sess, aw, nCredits,
          page>>

\* everything but the TaskDetailPage
server == <<users, referred_by, tasks, task_assignments, withdrawals,
            referral_earnings, unique_task_commission, max_active_tasks, sess, aw, nCredits>>

(* ---------------------------------------------------------------------- *)
(* Static data of the rows                                                 *)
(* ---------------------------------------------------------------------- *)
\* tasks.type: odd ids are 'simple' tasks, even ids are 'phone' tasks
TaskType(t) == IF t % 2 = 1 THEN "simple" ELSE "phone"

\* tasks.price, fixed at creation from the configured price of the type
TaskPrice(t) == IF TaskType(t) = "simple" THEN SIMPLE_TASK_PRICE ELSE PHONE_TASK_PRICE

\* the user a client session is authenticated as when every user runs one
\* client
SessionUser(s) == ((s - 1) % NumUsers) + 1

NoAssignment == [task_id |-> NULL, user_id |-> NULL, status |-> "none",
                 expired |-> FALSE, screenshots |-> 0, phone_number |-> <<>>]
NoWithdrawal == [user_id |-> NULL, amount |-> 0, status |-> "none"]
Idle == [pc |-> "idle", user |-> NULL, task |-> NULL]
NoScript == [withdrawal |-> NULL, deduct_from_main |-> 0, deduct_from_referral |-> 0]

\* no TaskDetailPage is open: useState(''), useState([]), useState(false),
\* useRef(false) are the values a page starts from
PageClosed == [mounted |-> FALSE, requiresPhoneNumber |-> FALSE, screenshots |-> 0,
               phoneNumber |-> <<>>, isSubmitting |-> FALSE,
               renderedIsSubmitting |-> FALSE, submitInProgressRef |-> FALSE,
               inFlight |-> 0, sent |-> 0]

\* a row of task_assignments exists (it was inserted and not deleted)
RowExists(l) == task_assignments[l].status \notin {"none", "deleted"}

\* a users table whose CHECK constraints keep only the ceiling
check_balance_ceiling(b) == b <= MAX_BALANCE

\* a users table whose CHECK constraints keep only the floor
check_balance_floor(b) == b >= 0

\* CHECK (main_balance >= 0 AND main_balance <= 2000000000), same for referral_balance
check_balance_range(b) == b >= 0 /\ b <= MAX_BALANCE

\* the CHECK constraints of users hold of every row of a candidate relation
UsersConstraintsOK(us) ==
    \A u \in Users : /\ check_balance_range(us[u].main_balance)
                     /\ check_balance_range(us[u].referral_balance)

TypeOK ==
    /\ users \in [Users -> [main_balance : Int, referral_balance : Int]]
    /\ referred_by \in [Users -> Users \cup {NULL}]
    /\ tasks \in [Tasks -> BOOLEAN]
    /\ \A l \in AssignmentIds :
          /\ task_assignments[l].status \in
                {"none", "assigned", "submitted", "approved", "rejected", "deleted"}
          /\ task_assignments[l].task_id \in Tasks \cup {NULL}
    /\ \A w \in WithdrawalIds :
          withdrawals[w].status \in {"none", "pending", "approved", "rejected"}
    /\ unique_task_commission \in BOOLEAN
    /\ max_active_tasks \in 1..MAX_ACTIVE_TASKS
    /\ nCredits \in 0..MaxCredits
    /\ page.inFlight \in 0..MaxSubmits
    /\ page.sent \in 0..MaxSubmits

(* ---------------------------------------------------------------------- *)
(* Initial state: an installed schema, registered users, tasks in the pool *)
(* ---------------------------------------------------------------------- *)
\* balances a registered user can start from: fresh, or close to the ceiling
InitialBalances ==
    { [u \in Users |-> [main_balance |-> 0, referral_balance |-> 0]],
      [u \in Users |-> IF u = 1
                       THEN [main_balance |-> MAX_BALANCE - 60,
                             referral_balance |-> MAX_BALANCE - 60]
                       ELSE [main_balance |-> 0, referral_balance |-> 0]] }

Init ==
    /\ users \in InitialBalances
    /\ referred_by = [u \in Users |-> IF u = 1 THEN NULL ELSE u - 1]
    /\ tasks = [t \in Tasks |-> TRUE]
    /\ task_assignments = [l \in AssignmentIds |-> NoAssignment]
    /\ withdrawals = [w \in WithdrawalIds |-> NoWithdrawal]
    /\ referral_earnings = <<>>
    /\ unique_task_commission \in BOOLEAN
    /\ max_active_tasks = MAX_ACTIVE_TASKS
    /\ sess = [s \in Sessions |-> Idle]
    /\ aw = [a \in Admins |-> NoScript]
    /\ nCredits = 0
    /\ page = PageClosed

(* ---------------------------------------------------------------------- *)
(* Identity: POST /api/auth/init                                           *)
(* ---------------------------------------------------------------------- *)
\* referrer ids a start_param can carry: none, a registered user, or an id
\* that no row of users has
StartParams == {NULL} \cup Users \cup {NumUsers + 1}

\* an initialisation that hands the id of the start_param to the upsert as
\* it came
NoReferrerValidation(u, p) == p

\* parsing and validation of the referrer: a self-referral or an id without
\* a row in users gives no referrer
ValidReferrer(u, p) ==
    IF p = NULL \/ p = u \/ p \notin Users THEN NULL ELSE p

\* an upsert that overwrites referred_by with the value of the call
UpsertOverwrites(old, excluded) == excluded

\* referred_by = CASE WHEN users.referred_by IS NULL THEN EXCLUDED.referred_by
\*               ELSE users.referred_by END
UpsertReferredBy(old, excluded) == IF old = NULL THEN excluded ELSE old

\* CONSTRAINT check_no_self_referral
\*    CHECK (referred_by IS NULL OR referred_by != telegram_id)
check_no_self_referral(u, r) == r = NULL \/ r # u

\* FOREIGN KEY (referred_by) REFERENCES users(telegram_id)
fk_users_referred_by(r) == r = NULL \/ r \in Users

\* how the upsert of POST /api/auth/init ends for user u and start_param p
AuthInitOutcome(u, p) ==
    LET r == UpsertReferredBy(referred_by[u], ValidReferrer(u, p))
    IN IF ~check_no_self_referral(u, r) THEN "check_violation"
       ELSE IF ~fk_users_referred_by(r) THEN "foreign_key_violation"
       ELSE "ok"

\* POST /api/auth/init of registered user u with start_param p: the upsert
\* takes the ON CONFLICT branch
AuthInit(u, p) ==
    /\ referred_by' = IF AuthInitOutcome(u, p) = "ok"
                      THEN [referred_by EXCEPT
                               ![u] = UpsertReferredBy(@, ValidReferrer(u, p))]
                      ELSE referred_by
    /\ UNCHANGED <<page, users, tasks, task_assignments, withdrawals, referral_earnings,
                   unique_task_commission, max_active_tasks, sess, aw, nCredits>>

(* ---------------------------------------------------------------------- *)
(* Task Pool Manager: GET /api/tasks/available, POST /api/tasks/{id}/assign*)
(* ---------------------------------------------------------------------- *)
\* the available tasks of a kind
AvailableTasks(ty) == {t \in Tasks : tasks[t] /\ TaskType(t) = ty}

\* the task the selection returns: the lowest id among the available ones
SelectTask(ty) == CHOOSE t \in AvailableTasks(ty) : \A o \in AvailableTasks(ty) : t <= o

\* number of leases a user holds in status 'assigned'
ActiveCount(u) ==
    Cardinality({l \in AssignmentIds : /\ task_assignments[l].status = "assigned"
                                       /\ task_assignments[l].user_id = u})

\* the rows with status = 'assigned' of a pair (user_id, task_id)
LeasedOf(u, t) ==
    {l \in AssignmentIds : /\ task_assignments[l].status = "assigned"
                           /\ task_assignments[l].user_id = u
                           /\ task_assignments[l].task_id = t}

\* a schema without idx_task_assignments_user_task_active
NoActiveIndex(u, t) == FALSE

\* idx_task_assignments_user_task_active: a row (user_id, task_id) with
\* status = 'assigned' already exists
idx_task_assignments_user_task_active(u, t) ==
    \E l \in AssignmentIds : /\ task_assignments[l].status = "assigned"
                             /\ task_assignments[l].user_id = u
                             /\ task_assignments[l].task_id = t

\* ids the SERIAL column has not handed out yet
FreeAssignmentIds == {l \in AssignmentIds : task_assignments[l].status = "none"}
NextAssignmentId == CHOOSE l \in FreeAssignmentIds : \A o \in FreeAssignmentIds : l <= o

\* an update of is_available that does not test it (the second request of
\* the CRITICAL-7 timeline)
FlipUnconditional(t) == TRUE

\* the conditional update "flip only if still available" matches the task row
FlipMatches(t) == tasks[t]

\* an assignment that does not count the leases the user holds
AssignOutcomeNoLimit(u, t) ==
    IF ~FlipMatches(t) THEN "NoTaskAvailable"
    ELSE IF idx_task_assignments_user_task_active(u, t) THEN "DuplicateActiveLease"
    ELSE "ok"

\* what POST /api/tasks/{t}/assign answers to user u
AssignOutcome(u, t) ==
    IF ActiveCount(u) >= max_active_tasks THEN "LeaseLimitExceeded"
    ELSE IF ~FlipMatches(t) THEN "NoTaskAvailable"
    ELSE IF idx_task_assignments_user_task_active(u, t) THEN "DuplicateActiveLease"
    ELSE "ok"

\* step 1 of handleConfirmAssignment: the client of user u asks for a task of
\* a kind
GetAvailableTask(s, u, ty) ==
    /\ sess[s].pc = "idle"
    /\ sess' = IF AvailableTasks(ty) = {}
               THEN sess
               ELSE [sess EXCEPT ![s] = [pc |-> "selected", user |-> u,
                                         task |-> SelectTask(ty)]]
    /\ UNCHANGED <<page, users, referred_by, tasks, task_assignments, withdrawals,
                   referral_earnings, unique_task_commission, max_active_tasks, aw, nCredits>>

\* step 2 of handleConfirmAssignment: the client assigns the task it was given
AssignTask(s) ==
    /\ sess[s].pc = "selected"
    /\ FreeAssignmentIds # {}
    /\ LET u == sess[s].user
           t == sess[s].task
       IN IF AssignOutcome(u, t) = "ok"
          THEN /\ tasks' = [tasks EXCEPT ![t] = FALSE]
               /\ task_assignments' =
                     [task_assignments EXCEPT ![NextAssignmentId] =
                         [task_id |-> t, user_id |-> u, status |-> "assigned",
                          expired |-> FALSE, screenshots |-> 0,
                          phone_number |-> <<>>]]
          ELSE UNCHANGED <<tasks, task_assignments>>
    /\ sess' = [sess EXCEPT ![s] = Idle]
    /\ UNCHANGED <<page, users, referred_by, withdrawals, referral_earnings,
                   unique_task_commission, max_active_tasks, aw, nCredits>>

(* ---------------------------------------------------------------------- *)
(* Time, screenshots, Submission Gate, Lease Reclaimer                     *)
(* ---------------------------------------------------------------------- *)
\* the deadline of a lease in status 'assigned' passes; every lease lasts the
\* same time, so the deadlines pass in the order of assignment (the deadline
\* of a row in another status is read by nothing)
DeadlinePasses(l) ==
    /\ task_assignments[l].status = "assigned"
    /\ ~task_assignments[l].expired
    /\ \A k \in AssignmentIds :
          k < l /\ task_assignments[k].status = "assigned" => task_assignments[k].expired
    /\ task_assignments' = [task_assignments EXCEPT ![l].expired = TRUE]
    /\ UNCHANGED <<page, users, referred_by, tasks, withdrawals, referral_earnings,
                   unique_task_commission, max_active_tasks, sess, aw, nCredits>>

\* POST /api/screenshots/upload for lease l: a row of screenshots is
\* inserted and the file is written; the handler tests no owner
UploadScreenshot(l) ==
    /\ task_assignments[l].status = "assigned"
    /\ task_assignments[l].screenshots < MaxScreenshots
    /\ task_assignments' = [task_assignments EXCEPT ![l].screenshots = @ + 1]
    /\ UNCHANGED <<page, users, referred_by, tasks, withdrawals, referral_earnings,
                   unique_task_commission, max_active_tasks, sess, aw, nCredits>>

\* the screenshots of lease l at a submit that comes with n uploads of the
\* page: those of n, or those uploaded before
ScreenshotsAt(l, n) ==
    IF task_assignments[l].screenshots > n THEN task_assignments[l].screenshots ELSE n

\* a submit handler that does not compare the deadline with the clock
SubmitOutcomeNoExpiry(l, u, n) ==
    IF ~RowExists(l) \/ task_assignments[l].user_id # u THEN "NotFound"
    ELSE IF task_assignments[l].status # "assigned" THEN "InvalidLeaseState"
    ELSE IF ScreenshotsAt(l, n) < 1 THEN "NoScreenshots"
    ELSE "ok"

\* a submit handler that does not test the status of the lease
SubmitOutcomeAnyState(l, u, n) ==
    IF ~RowExists(l) \/ task_assignments[l].user_id # u THEN "NotFound"
    ELSE IF task_assignments[l].expired THEN "LeaseExpired"
    ELSE IF ScreenshotsAt(l, n) < 1 THEN "NoScreenshots"
    ELSE "ok"

\* what POST /api/tasks/{l}/submit answers to user u who attached n screenshots
SubmitOutcome(l, u, n) ==
    IF ~RowExists(l) \/ task_assignments[l].user_id # u THEN "NotFound"
    ELSE IF task_assignments[l].status # "assigned" THEN "InvalidLeaseState"
    ELSE IF task_assignments[l].expired THEN "LeaseExpired"
    ELSE IF ScreenshotsAt(l, n) < 1 THEN "NoScreenshots"
    ELSE "ok"

\* phone numbers as the client can send them: none, "+7 (999) 123-45-67",
\* "89991234567", "9991234567" and "19991234567"
NoPhone == <<>>
PhoneFormatted ==
    <<"+", "7", " ", "(", "9", "9", "9", ")", " ", "1", "2", "3", "-", "4", "5",
      "-", "6", "7">>
PhoneEight == <<"8", "9", "9", "9", "1", "2", "3", "4", "5", "6", "7">>
PhoneTenDigits == <<"9", "9", "9", "1", "2", "3", "4", "5", "6", "7">>
PhoneWrongStart == <<"1", "9", "9", "9", "1", "2", "3", "4", "5", "6", "7">>
PhoneInputs == {NoPhone, PhoneFormatted, PhoneEight, PhoneTenDigits, PhoneWrongStart}

\* the characters \D does not match
Digits == {"0", "1", "2", "3", "4", "5", "6", "7", "8", "9"}

\* validatePhone: the digits of the number start with 7 or 8 and are 11
validatePhone(phone) ==
    LET digits == SelectSeq(phone, LAMBDA c : c \in Digits)
    IN /\ Len(digits) = 11
       /\ digits[1] \in {"7", "8"}

\* a submit handler that takes any phone number
SubmitPhoneUnchecked(l, phone) == "ok"

\* the test of the disclosed value: a lease on a 'phone' task needs a phone
\* number that passes the format check
SubmitPhoneOutcome(l, phone) ==
    IF TaskType(task_assignments[l].task_id) # "phone" THEN "ok"
    ELSE IF phone = NoPhone THEN "PhoneRequired"
    ELSE IF ~validatePhone(phone) THEN "InvalidPhone"
    ELSE "ok"

\* POST /api/tasks/{l}/submit by user u, with n screenshots uploaded from the
\* page just before and the phone number of the request body
SubmitTask(l, u, n, phone) ==
    /\ task_assignments' =
          IF SubmitOutcome(l, u, n) = "ok" /\ SubmitPhoneOutcome(l, phone) = "ok"
          THEN [task_assignments EXCEPT
                   ![l].status = "submitted",
                   ![l].screenshots = ScreenshotsAt(l, n),
                   ![l].phone_number =
                      IF TaskType(task_assignments[l].task_id) = "phone"
                      THEN phone ELSE NoPhone]
          ELSE task_assignments
    /\ UNCHANGED <<page, users, referred_by, tasks, withdrawals, referral_earnings,
                   unique_task_commission, max_active_tasks, sess, aw, nCredits>>

\* a sweep that claims every row whose deadline has passed, whatever its
\* status
ClaimsPastDeadline(ta) ==
    {l \in AssignmentIds : ta[l].status \notin {"none", "deleted"} /\ ta[l].expired}

\* a sweep that passes over the expired leases that hold screenshots
ExpiredWithoutUploads(ta) ==
    {l \in AssignmentIds : /\ ta[l].status = "assigned"
                           /\ ta[l].expired
                           /\ ta[l].screenshots = 0}

\* the leases of a relation the auto-return sweep claims:
\* status = 'assigned' AND deadline < NOW()
ExpiredIn(ta) ==
    {l \in AssignmentIds : ta[l].status = "assigned" /\ ta[l].expired}

ExpiredAssignments == ExpiredIn(task_assignments)

\* task_assignments after the sweep: the claimed leases are deleted with
\* their screenshots
SweepAssignments(ta) ==
    [l \in AssignmentIds |->
        IF l \in ExpiredIn(ta)
        THEN [ta[l] EXCEPT !.status = "deleted", !.screenshots = 0,
                           !.phone_number = NoPhone]
        ELSE ta[l]]

\* a sweep that flips is_available of the tasks it returns
SweepTasksToggles(ta, tk) ==
    [t \in Tasks |-> IF \E l \in ExpiredIn(ta) : ta[l].task_id = t
                     THEN ~tk[t] ELSE tk[t]]

\* tasks after the sweep: the tasks of the claimed leases are back in the pool
SweepTasks(ta, tk) ==
    [t \in Tasks |-> IF \E l \in ExpiredIn(ta) : ta[l].task_id = t
                     THEN TRUE ELSE tk[t]]

\* the auto-return middleware: one transaction deletes the expired leases with
\* their screenshots and returns their tasks to the pool
ReclaimSweep ==
    /\ task_assignments' = SweepAssignments(task_assignments)
    /\ tasks' = SweepTasks(task_assignments, tasks)
    /\ UNCHANGED <<page, users, referred_by, withdrawals, referral_earnings,
                   unique_task_commission, max_active_tasks, sess, aw, nCredits>>

(* ---------------------------------------------------------------------- *)
(* Verdict Processor: the Approve Task and Reject Task scripts             *)
(* ---------------------------------------------------------------------- *)
\* v_commission := v_task_price
Commission(price) == price

\* rows of referral_earnings whose task_assignment_id is l
EarningsOf(l) ==
    {i \in 1..Len(referral_earnings) : referral_earnings[i].task_assignment_id = l}

\* the INSERT into referral_earnings breaks unique_task_commission
UniqueCommissionViolated(l) == unique_task_commission /\ EarningsOf(l) # {}

\* a credit to main_balance that is lost
CreditMainLost(us, u, amount) == us

\* UPDATE users SET main_balance = main_balance + amount WHERE telegram_id = u
CreditMain(us, u, amount) == [us EXCEPT ![u].main_balance = @ + amount]

\* UPDATE users SET referral_balance = referral_balance + amount WHERE telegram_id = r
CreditReferral(us, r, amount) == [us EXCEPT ![r].referral_balance = @ + amount]

\* an Approve Task script that also credits the referrer of the referrer
ApproveTaskUsersTwoLevels(l) ==
    LET u == task_assignments[l].user_id
        price == TaskPrice(task_assignments[l].task_id)
        credited == CreditMain(users, u, price)
        r == referred_by[u]
    IN IF r = NULL THEN credited
       ELSE IF referred_by[r] = NULL THEN CreditReferral(credited, r, Commission(price))
       ELSE CreditReferral(CreditReferral(credited, r, Commission(price)),
                           referred_by[r], Commission(price))

\* the users relation the Approve Task script writes for lease l
ApproveTaskUsers(l) ==
    LET u == task_assignments[l].user_id
        price == TaskPrice(task_assignments[l].task_id)
        credited == CreditMain(users, u, price)
    IN IF referred_by[u] # NULL
       THEN CreditReferral(credited, referred_by[u], Commission(price))
       ELSE credited

\* how the Approve Task script ends for {assignment_id} = l: "ok" is COMMIT,
\* every other outcome but "no_rows" is an exception that rolls the block back
ApproveTaskOutcome(l) ==
    IF ~RowExists(l) THEN "no_rows"
    ELSE LET u == task_assignments[l].user_id
             price == TaskPrice(task_assignments[l].task_id)
             r == referred_by[u]
         IN IF price + users[u].main_balance > MAX_BALANCE THEN "BalanceOverflow"
            ELSE IF r # NULL /\ UniqueCommissionViolated(l) THEN "unique_violation"
            ELSE IF r # NULL /\ Commission(price) + users[r].referral_balance > MAX_BALANCE
                 THEN "BalanceOverflow"
            ELSE IF ~UsersConstraintsOK(ApproveTaskUsers(l)) THEN "check_violation"
            ELSE "ok"

\* an Approve Task script outside a transaction: a failure in the commission
\* block keeps the writes made before it
ApproveTaskNoRollback(l) ==
    /\ nCredits < MaxCredits
    /\ IF ApproveTaskOutcome(l) \in {"no_rows", "check_violation"}
       THEN UNCHANGED <<task_assignments, users, tasks, referral_earnings, nCredits>>
       ELSE LET u == task_assignments[l].user_id
                t == task_assignments[l].task_id
                r == referred_by[u]
                price == TaskPrice(t)
            IN /\ task_assignments' = [task_assignments EXCEPT ![l].status = "approved"]
               /\ IF price + users[u].main_balance > MAX_BALANCE
                  THEN UNCHANGED <<users, tasks, referral_earnings, nCredits>>
                  ELSE /\ tasks' = [tasks EXCEPT ![t] = TRUE]
                       /\ nCredits' = nCredits + 1
                       /\ IF ApproveTaskOutcome(l) = "ok"
                          THEN /\ users' = ApproveTaskUsers(l)
                               /\ referral_earnings' =
                                     IF r # NULL
                                     THEN Append(referral_earnings,
                                                 [referrer_id |-> r, referral_id |-> u,
                                                  amount |-> Commission(price),
                                                  task_assignment_id |-> l])
                                     ELSE referral_earnings
                          ELSE /\ users' = CreditMain(users, u, price)
                               /\ UNCHANGED referral_earnings
    /\ UNCHANGED <<page, referred_by, withdrawals, unique_task_commission, max_active_tasks, sess, aw>>

\* the Approve Task script; the script tests no status before it writes
ApproveTask(l) ==
    /\ nCredits < MaxCredits
    /\ IF ApproveTaskOutcome(l) = "ok"
       THEN LET u == task_assignments[l].user_id
                t == task_assignments[l].task_id
                r == referred_by[u]
            IN /\ task_assignments' = [task_assignments EXCEPT ![l].status = "approved"]
               /\ users' = ApproveTaskUsers(l)
               /\ tasks' = [tasks EXCEPT ![t] = TRUE]
               /\ referral_earnings' =
                     IF r # NULL
                     THEN Append(referral_earnings,
                                 [referrer_id |-> r, referral_id |-> u,
                                  amount |-> Commission(TaskPrice(t)),
                                  task_assignment_id |-> l])
                     ELSE referral_earnings
               /\ nCredits' = nCredits + 1
       ELSE UNCHANGED <<task_assignments, users, tasks, referral_earnings, nCredits>>
    /\ UNCHANGED <<page, referred_by, withdrawals, unique_task_commission, max_active_tasks, sess, aw>>

\* a Reject Task script that also deletes the screenshots of the lease
RejectTaskDiscards(l) ==
    /\ RowExists(l)
    /\ task_assignments' = [task_assignments EXCEPT ![l].status = "rejected",
                                                    ![l].screenshots = 0]
    /\ tasks' = [tasks EXCEPT ![task_assignments[l].task_id] = TRUE]
    /\ UNCHANGED <<page, users, referred_by, withdrawals, referral_earnings,
                   unique_task_commission, max_active_tasks, sess, aw, nCredits>>

\* a Reject Task script without its UPDATE of tasks
RejectTaskKeepsTask(l) ==
    /\ RowExists(l)
    /\ task_assignments' = [task_assignments EXCEPT ![l].status = "rejected"]
    /\ UNCHANGED <<page, users, referred_by, tasks, withdrawals, referral_earnings,
                   unique_task_commission, max_active_tasks, sess, aw, nCredits>>

\* the Reject Task script; it tests no status either
RejectTask(l) ==
    /\ RowExists(l)
    /\ task_assignments' = [task_assignments EXCEPT ![l].status = "rejected"]
    /\ tasks' = [tasks EXCEPT ![task_assignments[l].task_id] = TRUE]
    /\ UNCHANGED <<page, users, referred_by, withdrawals, referral_earnings,
                   unique_task_commission, max_active_tasks, sess, aw, nCredits>>

(* ---------------------------------------------------------------------- *)
(* Withdrawal Ledger                                                       *)
(* ---------------------------------------------------------------------- *)
\* amounts a client may ask for: below the minimum, and the minimum
WithdrawalAmounts == {MIN_WITHDRAWAL - SIMPLE_TASK_PRICE, MIN_WITHDRAWAL}

PendingOf(u) == {w \in WithdrawalIds : /\ withdrawals[w].status = "pending"
                                       /\ withdrawals[w].user_id = u}

RECURSIVE SumAmounts(_)
SumAmounts(ws) ==
    IF ws = {} THEN 0
    ELSE LET w == CHOOSE x \in ws : TRUE
         IN withdrawals[w].amount + SumAmounts(ws \ {w})

\* COALESCE(SUM(w.amount) FILTER (WHERE w.status = 'pending'), 0)
PendingSum(u) == SumAmounts(PendingOf(u))

\* a request handler that does not compare the amount with the balance
ExceedsAvailableUnchecked(u, amount) == FALSE

\* amount > available_balance, where available_balance = total_balance -
\* pending_sum is computed by the server in unbounded integers; the comparison
\* is arranged so that no intermediate value leaves the 32-bit range
ExceedsAvailable(u, amount) ==
    (amount + PendingSum(u)) - users[u].main_balance > users[u].referral_balance

FreeWithdrawalIds == {w \in WithdrawalIds : withdrawals[w].status = "none"}
NextWithdrawalId == CHOOSE w \in FreeWithdrawalIds : \A o \in FreeWithdrawalIds : w <= o

\* a request handler that does not look for a pending request of the user
RequestWithdrawalOutcomeNoPending(u, amount) ==
    IF amount <= 0 \/ amount < MIN_WITHDRAWAL THEN "InvalidWithdrawalAmount"
    ELSE IF ExceedsAvailable(u, amount) THEN "InsufficientBalance"
    ELSE "ok"

\* what POST /api/withdrawals answers; the user row is locked during the check
RequestWithdrawalOutcome(u, amount) ==
    IF amount <= 0 \/ amount < MIN_WITHDRAWAL THEN "InvalidWithdrawalAmount"
    ELSE IF ExceedsAvailable(u, amount) THEN "InsufficientBalance"
    ELSE IF PendingOf(u) # {} THEN "PendingWithdrawalExists"
    ELSE "ok"

\* a request handler that takes the amount from main_balance at once
RequestWithdrawalDebits(u, amount) ==
    /\ IF RequestWithdrawalOutcome(u, amount) = "ok"
       THEN /\ FreeWithdrawalIds # {}
            /\ withdrawals' = [withdrawals EXCEPT ![NextWithdrawalId] =
                                  [user_id |-> u, amount |-> amount, status |-> "pending"]]
            /\ users' = [users EXCEPT ![u].main_balance = @ - amount]
       ELSE UNCHANGED <<withdrawals, users>>
    /\ UNCHANGED <<page, referred_by, tasks, task_assignments, referral_earnings,
                   unique_task_commission, max_active_tasks, sess, aw, nCredits>>

RequestWithdrawal(u, amount) ==
    /\ IF RequestWithdrawalOutcome(u, amount) = "ok"
       THEN /\ FreeWithdrawalIds # {}
            /\ withdrawals' = [withdrawals EXCEPT ![NextWithdrawalId] =
                                  [user_id |-> u, amount |-> amount, status |-> "pending"]]
       ELSE UNCHANGED withdrawals
    /\ UNCHANGED <<page, users, referred_by, tasks, task_assignments, referral_earnings,
                   unique_task_commission, max_active_tasks, sess, aw, nCredits>>

\* v_main_balance + v_referral_balance is a sum of two INTEGERs: PostgreSQL
\* raises "integer out of range" when it exceeds INT4_MAX
SumOutOfRange(main, referral) == main > INT4_MAX - referral

\* CRITICAL-2 check of the Approve Withdrawal script:
\* (v_main_balance + v_referral_balance) < v_amount
InsufficientBalance(main, referral, amount) == main < amount - referral

\* how the first half of the Approve Withdrawal script ends for a withdrawal
ApproveWithdrawalReadOutcome(w) ==
    LET u == withdrawals[w].user_id
        main == users[u].main_balance
        referral == users[u].referral_balance
    IN IF SumOutOfRange(main, referral) THEN "integer_out_of_range"
       ELSE IF InsufficientBalance(main, referral, withdrawals[w].amount)
            THEN "InsufficientBalance"
       ELSE "proceeds"

\* v_deduct_from_main: main_balance first
DeductFromMain(main, amount) == IF main >= amount THEN amount ELSE main

\* v_deduct_from_referral: the remainder
DeductFromReferral(main, amount) == IF main >= amount THEN 0 ELSE amount - main

\* Approve Withdrawal, first half: the script reads the withdrawal and the
\* balances (no row is locked), raises an exception or computes
\* the two deductions from what it read
ApproveWithdrawalRead(a, w) ==
    /\ aw[a] = NoScript
    /\ withdrawals[w].status # "none"
    /\ LET u == withdrawals[w].user_id
           amount == withdrawals[w].amount
           main == users[u].main_balance
       IN aw' = IF ApproveWithdrawalReadOutcome(w) # "proceeds"
                THEN aw
                ELSE [aw EXCEPT ![a] =
                         [withdrawal |-> w,
                          deduct_from_main |-> DeductFromMain(main, amount),
                          deduct_from_referral |-> DeductFromReferral(main, amount)]]
    /\ UNCHANGED <<page, users, referred_by, tasks, task_assignments, withdrawals,
                   referral_earnings, unique_task_commission, max_active_tasks, sess, nCredits>>

\* the users relation the second half writes
ApproveWithdrawalUsers(a) ==
    LET u == withdrawals[aw[a].withdrawal].user_id
    IN [users EXCEPT ![u].main_balance = @ - aw[a].deduct_from_main,
                     ![u].referral_balance = @ - aw[a].deduct_from_referral]

\* the UPDATE of users passes the CHECK constraints of the table
ApproveWithdrawalCommits(a) == UsersConstraintsOK(ApproveWithdrawalUsers(a))

\* Approve Withdrawal, second half: the two UPDATEs and COMMIT; the script
\* tests no status before it writes
ApproveWithdrawalWrite(a) ==
    /\ aw[a] # NoScript
    /\ IF ApproveWithdrawalCommits(a)
       THEN /\ users' = ApproveWithdrawalUsers(a)
            /\ withdrawals' = [withdrawals EXCEPT ![aw[a].withdrawal].status = "approved"]
       ELSE UNCHANGED <<users, withdrawals>>
    /\ aw' = [aw EXCEPT ![a] = NoScript]
    /\ UNCHANGED <<page, referred_by, tasks, task_assignments, referral_earnings,
                   unique_task_commission, max_active_tasks, sess, nCredits>>

\* GREATEST(a, b)
Greatest(a, b) == IF a >= b THEN a ELSE b

\* the users relation the simplified Approve Withdrawal script writes: one
\* UPDATE, whose right-hand sides read the old values of the row
ApproveWithdrawalSimplifiedUsers(w) ==
    LET u == withdrawals[w].user_id
        amount == withdrawals[w].amount
        main == users[u].main_balance
        referral == users[u].referral_balance
    IN [users EXCEPT
           ![u].main_balance = Greatest(0, main - amount),
           ![u].referral_balance = Greatest(0, referral - Greatest(0, amount - main))]

\* the simplified Approve Withdrawal script: the UPDATE of users and the
\* UPDATE of withdrawals between BEGIN and COMMIT; it tests neither the
\* balances nor the status
ApproveWithdrawalSimplified(w) ==
    /\ withdrawals[w].status # "none"
    /\ IF UsersConstraintsOK(ApproveWithdrawalSimplifiedUsers(w))
       THEN /\ users' = ApproveWithdrawalSimplifiedUsers(w)
            /\ withdrawals' = [withdrawals EXCEPT ![w].status = "approved"]
       ELSE UNCHANGED <<users, withdrawals>>
    /\ UNCHANGED <<page, referred_by, tasks, task_assignments, referral_earnings,
                   unique_task_commission, max_active_tasks, sess, aw, nCredits>>

\* the users relation the Reject Withdrawal script writes
RejectWithdrawalUsers(w) ==
    CreditMain(users, withdrawals[w].user_id, withdrawals[w].amount)

\* the Reject Withdrawal script: refund to main_balance, then status = 'rejected'
RejectWithdrawal(w) ==
    /\ nCredits < MaxCredits
    /\ withdrawals[w].status # "none"
    /\ IF UsersConstraintsOK(RejectWithdrawalUsers(w))
       THEN /\ users' = RejectWithdrawalUsers(w)
            /\ withdrawals' = [withdrawals EXCEPT ![w].status = "rejected"]
            /\ nCredits' = nCredits + 1
       ELSE UNCHANGED <<users, withdrawals, nCredits>>
    /\ UNCHANGED <<page, referred_by, tasks, task_assignments, referral_earnings,
                   unique_task_commission, max_active_tasks, sess, aw>>

\* what POST /api/tasks/{l}/cancel answers to user u
CancelOutcome(l, u) ==
    IF ~RowExists(l) \/ task_assignments[l].user_id # u THEN "NotFound"
    ELSE IF task_assignments[l].status # "assigned" THEN "InvalidLeaseState"
    ELSE "ok"

\* a cancel that leaves the screenshots of the lease behind
CancelTaskKeepsScreenshots(l, u) ==
    /\ IF CancelOutcome(l, u) = "ok"
       THEN /\ task_assignments' = [task_assignments EXCEPT ![l].status = "deleted"]
            /\ tasks' = [tasks EXCEPT ![task_assignments[l].task_id] = TRUE]
       ELSE UNCHANGED <<task_assignments, tasks>>
    /\ UNCHANGED <<page, users, referred_by, withdrawals, referral_earnings,
                   unique_task_commission, max_active_tasks, sess, aw, nCredits>>

\* a cancel that deletes the lease and leaves its task out of the pool
CancelTaskKeepsTask(l, u) ==
    /\ IF CancelOutcome(l, u) = "ok"
       THEN task_assignments' = [task_assignments EXCEPT
                                    ![l].status = "deleted",
                                    ![l].screenshots = 0,
                                    ![l].phone_number = NoPhone]
       ELSE UNCHANGED task_assignments
    /\ UNCHANGED <<page, users, referred_by, tasks, withdrawals, referral_earnings,
                   unique_task_commission, max_active_tasks, sess, aw, nCredits>>

\* POST /api/tasks/{l}/cancel by user u: the lease is deleted with its
\* screenshots and its task returns to the pool
CancelTask(l, u) ==
    /\ IF CancelOutcome(l, u) = "ok"
       THEN /\ task_assignments' = [task_assignments EXCEPT
                                       ![l].status = "deleted",
                                       ![l].screenshots = 0,
                                       ![l].phone_number = NoPhone]
            /\ tasks' = [tasks EXCEPT ![task_assignments[l].task_id] = TRUE]
       ELSE UNCHANGED <<task_assignments, tasks>>
    /\ UNCHANGED <<page, users, referred_by, withdrawals, referral_earnings,
                   unique_task_commission, max_active_tasks, sess, aw, nCredits>>

(* ---------------------------------------------------------------------- *)
(* TaskDetailPage: the submit button                                       *)
(* ---------------------------------------------------------------------- *)
\* loadData: the page of a lease in status 'assigned' opens with the kind of
\* its task and the screenshots and phone number the lease already holds
loadData(phone_task, n, phone) ==
    /\ page = PageClosed
    /\ page' = [PageClosed EXCEPT !.mounted = TRUE,
                                  !.requiresPhoneNumber = phone_task,
                                  !.screenshots = n,
                                  !.phoneNumber = phone]
    /\ UNCHANGED server

\* handlePhoneChange: setPhoneNumber(value)
handlePhoneChange(value) ==
    /\ page.mounted
    /\ page' = [page EXCEPT !.phoneNumber = value]
    /\ UNCHANGED server

\* an upload finished: setScreenshots with one more element
handleScreenshotUploaded ==
    /\ page.mounted
    /\ page.screenshots < MaxScreenshots
    /\ page' = [page EXCEPT !.screenshots = @ + 1]
    /\ UNCHANGED server

\* React renders the page again: the handlers of the new render read the
\* value setIsSubmitting stored (the other state is taken as rendered at once)
Render ==
    /\ page.mounted
    /\ page' = [page EXCEPT !.renderedIsSubmitting = page.isSubmitting]
    /\ UNCHANGED server

hasScreenshots == page.screenshots > 0

hasValidPhone ==
    IF page.requiresPhoneNumber
    THEN page.phoneNumber # NoPhone /\ validatePhone(page.phoneNumber)
    ELSE TRUE

\* canSubmit as the handler of the last render sees it
canSubmit == hasScreenshots /\ hasValidPhone /\ ~page.renderedIsSubmitting

\* a handler without the ref: it relies on canSubmit alone
NoSubmitRef == FALSE

\* if (submitInProgressRef.current) return
SubmitInProgress == page.submitInProgressRef

\* handleSubmit reaches apiService.submitTask
SubmitSends ==
    /\ page.mounted
    /\ canSubmit
    /\ ~SubmitInProgress
    /\ ~(page.requiresPhoneNumber /\ ~validatePhone(page.phoneNumber))

\* a click on the submit button: handleSubmit up to its await; the ref and
\* the state are set before the request leaves
handleSubmit ==
    /\ page.mounted
    /\ page.sent < MaxSubmits
    /\ page' = IF SubmitSends
               THEN [page EXCEPT !.submitInProgressRef = TRUE,
                                 !.isSubmitting = TRUE,
                                 !.inFlight = @ + 1,
                                 !.sent = @ + 1]
               ELSE page
    /\ UNCHANGED server

\* a submitTask request settles: on success the page navigates to /tasks, on
\* error it stays; the finally block resets the ref and the state
SubmitSettles(ok) ==
    /\ page.inFlight > 0
    /\ page' = [page EXCEPT !.submitInProgressRef = FALSE,
                            !.isSubmitting = FALSE,
                            !.inFlight = @ - 1,
                            !.mounted = IF ok THEN FALSE ELSE @]
    /\ UNCHANGED server

\* one TaskDetailPage: inputs, renders, clicks and answers in any order
NextDetailPage ==
    \/ \E phone_task \in BOOLEAN, n \in 0..MaxScreenshots, phone \in PhoneInputs :
          loadData(phone_task, n, phone)
    \/ \E value \in PhoneInputs : handlePhoneChange(value)
    \/ handleScreenshotUploaded
    \/ Render
    \/ handleSubmit
    \/ \E ok \in BOOLEAN : SubmitSettles(ok)

SpecDetailPage == Init /\ [][NextDetailPage]_vars

(* ---------------------------------------------------------------------- *)
(* The system                                                              *)
(* ---------------------------------------------------------------------- *)
\* the lease cycle on the simple tasks, one client per user: clients, time,
\* the auto-return sweep, the task verdicts
NextLease ==
    \/ \E s \in Sessions : GetAvailableTask(s, SessionUser(s), "simple")
    \/ \E s \in Sessions : AssignTask(s)
    \/ \E l \in AssignmentIds : DeadlinePasses(l)
    \/ \E l \in AssignmentIds, u \in Users, n \in 0..1 : SubmitTask(l, u, n, NoPhone)
    \/ ReclaimSweep
    \/ \E l \in AssignmentIds : ApproveTask(l)
    \/ \E l \in AssignmentIds : RejectTask(l)

\* the withdrawal ledger
NextWithdrawals ==
    \/ \E u \in Users, amount \in WithdrawalAmounts : RequestWithdrawal(u, amount)
    \/ \E a \in Admins, w \in WithdrawalIds : ApproveWithdrawalRead(a, w)
    \/ \E a \in Admins : ApproveWithdrawalWrite(a)
    \/ \E w \in WithdrawalIds : RejectWithdrawal(w)

\* the withdrawal ledger when the admin uses either Approve Withdrawal script
NextApproveScripts ==
    \/ \E u \in Users, amount \in WithdrawalAmounts : RequestWithdrawal(u, amount)
    \/ \E a \in Admins, w \in WithdrawalIds : ApproveWithdrawalRead(a, w)
    \/ \E a \in Admins : ApproveWithdrawalWrite(a)
    \/ \E w \in WithdrawalIds : ApproveWithdrawalSimplified(w)
    \/ \E w \in WithdrawalIds : RejectWithdrawal(w)

\* the lease cycle alone, with MaxAssignments leases
SpecLease == Init /\ [][NextLease]_vars

\* the whole system while the SERIAL of task_assignments is below
\* MaxLedgerAssignments
NextLedger ==
    \/ \E s \in Sessions : GetAvailableTask(s, SessionUser(s), "simple")
    \/ \E s \in Sessions : AssignTask(s) /\ NextAssignmentId <= MaxLedgerAssignments
    \/ \E l \in AssignmentIds : DeadlinePasses(l)
    \/ \E l \in AssignmentIds, u \in Users, n \in 0..1 : SubmitTask(l, u, n, NoPhone)
    \/ ReclaimSweep
    \/ \E l \in AssignmentIds : ApproveTask(l)
    \/ \E l \in AssignmentIds : RejectTask(l)
    \/ \E u \in Users, amount \in WithdrawalAmounts : RequestWithdrawal(u, amount)
    \/ \E a \in Admins, w \in WithdrawalIds : ApproveWithdrawalRead(a, w)
    \/ \E a \in Admins : ApproveWithdrawalWrite(a)
    \/ \E w \in WithdrawalIds : RejectWithdrawal(w)

SpecLedger == Init /\ [][NextLedger]_vars

\* balances of users who earned before: user 1 holds less than a minimal
\* withdrawal on main_balance and the rest on referral_balance, the others
\* hold exactly a minimal withdrawal
FundedBalances ==
    { [u \in Users |-> IF u = 1
                       THEN [main_balance |-> SIMPLE_TASK_PRICE,
                             referral_balance |-> MIN_WITHDRAWAL]
                       ELSE [main_balance |-> MIN_WITHDRAWAL, referral_balance |-> 0]] }

InitWithdrawals ==
    /\ users \in InitialBalances \cup FundedBalances
    /\ referred_by = [u \in Users |-> IF u = 1 THEN NULL ELSE u - 1]
    /\ tasks = [t \in Tasks |-> TRUE]
    /\ task_assignments = [l \in AssignmentIds |-> NoAssignment]
    /\ withdrawals = [w \in WithdrawalIds |-> NoWithdrawal]
    /\ referral_earnings = <<>>
    /\ unique_task_commission \in BOOLEAN
    /\ max_active_tasks = MAX_ACTIVE_TASKS
    /\ sess = [s \in Sessions |-> Idle]
    /\ aw = [a \in Admins |-> NoScript]
    /\ nCredits = 0
    /\ page = PageClosed

\* the withdrawal ledger alone, over users who hold money
SpecWithdrawals == InitWithdrawals /\ [][NextWithdrawals]_vars

\* users who hold a few withdrawals' worth of money: the simplified script
\* debits without a test, so the balances bound the number of its debits
InitApproveScripts ==
    /\ InitWithdrawals
    /\ users \in FundedBalances

\* the withdrawal ledger with both Approve Withdrawal scripts
SpecApproveScripts == InitApproveScripts /\ [][NextApproveScripts]_vars

\* initialisation calls and the lease cycle while the SERIAL of
\* task_assignments is below MaxLedgerAssignments
NextReferral ==
    \/ \E u \in Users, p \in StartParams : AuthInit(u, p)
    \/ \E s \in Sessions : GetAvailableTask(s, SessionUser(s), "simple")
    \/ \E s \in Sessions : AssignTask(s) /\ NextAssignmentId <= MaxLedgerAssignments
    \/ \E l \in AssignmentIds : DeadlinePasses(l)
    \/ \E l \in AssignmentIds, u \in Users, n \in 0..1 : SubmitTask(l, u, n, NoPhone)
    \/ ReclaimSweep
    \/ \E l \in AssignmentIds : ApproveTask(l)
    \/ \E l \in AssignmentIds : RejectTask(l)

SpecReferral == Init /\ [][NextReferral]_vars

\* the task pool under a small configured cap, every client session free to
\* act for any user: selection, assignment, time, the auto-return sweep and
\* the Reject Task script
InitPool ==
    /\ users = [u \in Users |-> [main_balance |-> 0, referral_balance |-> 0]]
    /\ referred_by = [u \in Users |-> IF u = 1 THEN NULL ELSE u - 1]
    /\ tasks = [t \in Tasks |-> TRUE]
    /\ task_assignments = [l \in AssignmentIds |-> NoAssignment]
    /\ withdrawals = [w \in WithdrawalIds |-> NoWithdrawal]
    /\ referral_earnings = <<>>
    /\ unique_task_commission \in BOOLEAN
    /\ max_active_tasks \in 1..MaxPoolCap
    /\ sess = [s \in Sessions |-> Idle]
    /\ aw = [a \in Admins |-> NoScript]
    /\ nCredits = 0
    /\ page = PageClosed

NextPool ==
    \/ \E s \in Sessions, u \in Users, ty \in {"simple", "phone"} :
          GetAvailableTask(s, u, ty)
    \/ \E s \in Sessions : AssignTask(s)
    \/ \E l \in AssignmentIds : DeadlinePasses(l)
    \/ ReclaimSweep
    \/ \E l \in AssignmentIds : RejectTask(l)

SpecPool == InitPool /\ [][NextPool]_vars

\* submissions on both kinds of task, one client per user, with the phone
\* numbers of PhoneInputs, while the SERIAL of task_assignments is below
\* MaxLedgerAssignments
NextSubmit ==
    \/ \E s \in Sessions, ty \in {"simple", "phone"} :
          GetAvailableTask(s, SessionUser(s), ty)
    \/ \E s \in Sessions : AssignTask(s) /\ NextAssignmentId <= MaxLedgerAssignments
    \/ \E l \in AssignmentIds : DeadlinePasses(l)
    \/ \E l \in AssignmentIds, u \in Users, n \in 0..1, phone \in PhoneInputs :
          SubmitTask(l, u, n, phone)
    \/ ReclaimSweep
    \/ \E l \in AssignmentIds : RejectTask(l)

SpecSubmit == Init /\ [][NextSubmit]_vars

\* the lease cycle on the simple tasks with the uploads of screenshots and
\* the cancellations, while the SERIAL of task_assignments is below
\* MaxLedgerAssignments
NextReclaim ==
    \/ \E s \in Sessions : GetAvailableTask(s, SessionUser(s), "simple")
    \/ \E s \in Sessions : AssignTask(s) /\ NextAssignmentId <= MaxLedgerAssignments
    \/ \E l \in AssignmentIds : UploadScreenshot(l)
    \/ \E l \in AssignmentIds : DeadlinePasses(l)
    \/ \E l \in AssignmentIds, u \in Users, n \in 0..1 : SubmitTask(l, u, n, NoPhone)
    \/ \E l \in AssignmentIds, u \in Users : CancelTask(l, u)
    \/ ReclaimSweep
    \/ \E l \in AssignmentIds : ApproveTask(l)
    \/ \E l \in AssignmentIds : RejectTask(l)

SpecReclaim == Init /\ [][NextReclaim]_vars

\* the same cycle while requests to /api/tasks/* keep arriving: the
\* auto-return middleware runs before each of them, so a sweep that has
\* something to return is not postponed forever
SpecReclaimFair == SpecReclaim /\ WF_vars(ReclaimSweep)

\* the whole system
Next ==
    \/ NextLease
    \/ NextWithdrawals
    \/ \E u \in Users, p \in StartParams : AuthInit(u, p)
    \/ \E s \in Sessions, u \in Users : GetAvailableTask(s, u, "phone")
    \/ \E l \in AssignmentIds, u \in Users, n \in 0..1, phone \in PhoneInputs :
          SubmitTask(l, u, n, phone)
    \/ \E l \in AssignmentIds : UploadScreenshot(l)
    \/ \E l \in AssignmentIds, u \in Users : CancelTask(l, u)
    \/ NextDetailPage

Spec == Init /\ [][Next]_vars

(* ---------------------------------------------------------------------- *)
(* Properties                                                              *)
(* ---------------------------------------------------------------------- *)
\* C1: in every reachable state every task has at most one lease in status
\* 'assigned': no interleaving of the operations leaves two leased leases on
\* the same task
C1_MutualExclusion ==
    \A t \in Tasks :
        Cardinality({l \in AssignmentIds : /\ task_assignments[l].status = "assigned"
                                           /\ task_assignments[l].task_id = t}) <= 1

\* C1, the case where it is at stake: a lease is in status 'assigned' on a
\* task after an earlier lease on the same task was given a verdict
C1_LeasedAfterVerdict ==
    \E l, k \in AssignmentIds :
        /\ task_assignments[l].status = "assigned"
        /\ task_assignments[l].task_id = task_assignments[k].task_id
        /\ task_assignments[k].status \in {"approved", "rejected"}

\* C2: a lease in status 'approved' whose performer has a referrer has exactly
\* one row of referral_earnings, however often the approval ran
C2_OneCommissionPerLease ==
    \A l \in AssignmentIds :
        /\ Cardinality(EarningsOf(l)) <= 1
        /\ (/\ task_assignments[l].status = "approved"
            /\ referred_by[task_assignments[l].user_id] # NULL)
           => Cardinality(EarningsOf(l)) = 1

\* C2, the case where it is at stake: an approved lease of a referred
\* performer with its commission row
C2_CommissionPosted ==
    \E l \in AssignmentIds : /\ task_assignments[l].status = "approved"
                             /\ EarningsOf(l) # {}

\* C3: an Approve Task run on a lease that is already 'approved' answers
\* InvalidLeaseState and changes no balance
C3_SecondApproveRefused ==
    [][\A l \in AssignmentIds :
          (task_assignments[l].status = "approved" /\ ApproveTask(l))
          => /\ ApproveTaskOutcome(l) = "InvalidLeaseState"
             /\ users' = users]_vars

\* C3, the case where it is at stake: an approved lease whose second approval
\* is about to commit
C3_ApprovedAgain ==
    \E l \in AssignmentIds : /\ task_assignments[l].status = "approved"
                             /\ nCredits < MaxCredits
                             /\ ApproveTaskOutcome(l) = "ok"

\* C4: in every reachable state main_balance >= 0 and referral_balance >= 0
\* for every user
C4_BalancesNonNegative ==
    \A u \in Users : users[u].main_balance >= 0 /\ users[u].referral_balance >= 0

\* C4, the case where it is at stake: an Approve Withdrawal script is about to
\* write deductions that exceed what is left of the balances
C4_StaleDeductions ==
    \E a \in Admins : aw[a] # NoScript /\ ~ApproveWithdrawalCommits(a)

\* C5: a withdrawal request whose amount, added to the user's pending
\* requests, exceeds main_balance + referral_balance is refused with
\* InsufficientBalance; when a request is admitted, the sum of the user's
\* pending requests, the new one included, does not exceed main_balance +
\* referral_balance as read at that moment
C5_PendingWithinBalance ==
    /\ [](\A u \in Users, amount \in WithdrawalAmounts :
             (/\ amount >= MIN_WITHDRAWAL
              /\ (amount + PendingSum(u)) - users[u].main_balance
                    > users[u].referral_balance)
             => RequestWithdrawalOutcome(u, amount) = "InsufficientBalance")
    /\ [][\A u \in Users, amount \in WithdrawalAmounts :
             (RequestWithdrawal(u, amount) /\ withdrawals' # withdrawals)
             => PendingSum(u)' - users[u].main_balance
                   <= users[u].referral_balance]_vars

\* C5, the case where it is at stake: a pending request that takes the whole
\* of the user's two balances
C5_PendingTakesAll ==
    \E u \in Users : /\ PendingOf(u) # {}
                     /\ PendingSum(u) - users[u].main_balance = users[u].referral_balance

C7_VerdictAtomic ==
    [][\A l \in AssignmentIds :
          /\ ApproveTask(l) =>
                \/ UNCHANGED <<task_assignments, tasks, users, referral_earnings>>
                \/ LET u == task_assignments[l].user_id
                       t == task_assignments[l].task_id
                       r == referred_by[u]
                       n == Len(referral_earnings')
                   IN /\ task_assignments'[l].status = "approved"
                      /\ tasks'[t]
                      /\ users'[u].main_balance = users[u].main_balance + TaskPrice(t)
                      /\ r # NULL =>
                            /\ n = Len(referral_earnings) + 1
                            /\ referral_earnings'[n].task_assignment_id = l
                            /\ users'[r].referral_balance =
                                  users[r].referral_balance + referral_earnings'[n].amount
                      /\ r = NULL => UNCHANGED referral_earnings
          /\ RejectTask(l) => /\ task_assignments'[l].status = "rejected"
                              /\ tasks'[task_assignments[l].task_id]]_vars

\* C7, the case where it is at stake: an Approve Task run is about to fail in
\* its commission block, after the statements that mark, credit and release
C7_FailsMidway ==
    \E l \in AssignmentIds : /\ nCredits < MaxCredits
                             /\ ApproveTaskOutcome(l) = "unique_violation"

\* C8: Approve Task on a submitted lease whose performer has no referrer, the
\* credit staying within the ceiling of the balance, commits, and its step
\* makes the lease approved and the task available, adds the price to
\* main_balance, inserts no commission row and changes no referral_balance
C8_ApproveWithoutReferrer ==
    /\ [](\A l \in AssignmentIds :
             (/\ task_assignments[l].status = "submitted"
              /\ referred_by[task_assignments[l].user_id] = NULL
              /\ TaskPrice(task_assignments[l].task_id)
                    <= MAX_BALANCE - users[task_assignments[l].user_id].main_balance)
             => ApproveTaskOutcome(l) = "ok")
    /\ [][\A l \in AssignmentIds :
             (/\ task_assignments[l].status = "submitted"
              /\ referred_by[task_assignments[l].user_id] = NULL
              /\ TaskPrice(task_assignments[l].task_id)
                    <= MAX_BALANCE - users[task_assignments[l].user_id].main_balance
              /\ ApproveTask(l))
             => LET u == task_assignments[l].user_id
                    t == task_assignments[l].task_id
                IN /\ task_assignments'[l].status = "approved"
                   /\ tasks'[t]
                   /\ users'[u].main_balance = users[u].main_balance + TaskPrice(t)
                   /\ referral_earnings' = referral_earnings
                   /\ \A v \in Users :
                         users'[v].referral_balance = users[v].referral_balance]_vars

\* C8, the case where it is at stake: an approved lease of a performer
\* without referrer, the price on main_balance and no commission row
C8_ApprovedWithoutReferrer ==
    \E l \in AssignmentIds :
        /\ task_assignments[l].status = "approved"
        /\ referred_by[task_assignments[l].user_id] = NULL
        /\ users[task_assignments[l].user_id].main_balance =
              TaskPrice(task_assignments[l].task_id)
        /\ referral_earnings = <<>>

\* C9: Approve Task on a submitted lease whose performer has a referrer
\* inserts exactly one commission row of 50% of the price, adds that amount
\* to the referrer's referral_balance and the full price to the performer's
\* main_balance
C9_ApproveWithReferrer ==
    [][\A l \in AssignmentIds :
          (/\ task_assignments[l].status = "submitted"
           /\ referred_by[task_assignments[l].user_id] # NULL
           /\ ApproveTaskOutcome(l) = "ok"
           /\ ApproveTask(l))
          => LET u == task_assignments[l].user_id
                 r == referred_by[u]
                 price == TaskPrice(task_assignments[l].task_id)
                 n == Len(referral_earnings')
             IN /\ n = Len(referral_earnings) + 1
                /\ referral_earnings'[n].amount * 2 = price
                /\ (users'[r].referral_balance - users[r].referral_balance) * 2 = price
                /\ users'[u].main_balance = users[u].main_balance + price]_vars

\* C9, the case where it is at stake: a commission row of an approved lease
\* that carries the whole price of the task
C9_CommissionIsPrice ==
    \E i \in 1..Len(referral_earnings) :
        LET l == referral_earnings[i].task_assignment_id
        IN /\ task_assignments[l].status = "approved"
           /\ referral_earnings[i].amount = TaskPrice(task_assignments[l].task_id)

\* C10: Approve Withdrawal on a pending request of amount a: when
\* main_balance + referral_balance < a the run fails with InsufficientBalance;
\* otherwise it goes on to debit min(a, main_balance) from main_balance and
\* the remainder from referral_balance
C10_ApproveWithdrawal ==
    \A w \in WithdrawalIds :
        withdrawals[w].status = "pending" =>
            LET u == withdrawals[w].user_id
                amount == withdrawals[w].amount
                main == users[u].main_balance
                fromMain == IF main < amount THEN main ELSE amount
            IN IF main < amount - users[u].referral_balance
               THEN ApproveWithdrawalReadOutcome(w) = "InsufficientBalance"
               ELSE /\ ApproveWithdrawalReadOutcome(w) = "proceeds"
                    /\ DeductFromMain(main, amount) = fromMain
                    /\ DeductFromReferral(main, amount) = amount - fromMain
                    /\ \A a \in Admins :
                          (/\ aw[a].withdrawal = w
                           /\ aw[a].deduct_from_main = fromMain
                           /\ aw[a].deduct_from_referral = amount - fromMain)
                          => /\ ApproveWithdrawalCommits(a)
                             /\ ApproveWithdrawalUsers(a) =
                                   [users EXCEPT
                                      ![u].main_balance = @ - fromMain,
                                      ![u].referral_balance = @ - (amount - fromMain)]

\* C10, the case where it is at stake: an Approve Withdrawal run on a pending
\* request of a user whose two balances together exceed the 32-bit range
C10_SumOutOfRange ==
    \E w \in WithdrawalIds :
        /\ withdrawals[w].status = "pending"
        /\ ApproveWithdrawalReadOutcome(w) = "integer_out_of_range"

\* C11: Reject Withdrawal on a pending request marks it rejected and leaves
\* main_balance and referral_balance of every user unchanged
C11_RejectLeavesBalances ==
    [][\A w \in WithdrawalIds :
          (withdrawals[w].status = "pending" /\ RejectWithdrawal(w))
          => /\ withdrawals'[w].status = "rejected"
             /\ users' = users]_vars

\* C11, the case where it is at stake: a rejected request whose Reject
\* Withdrawal run committed
C11_RejectCommitted ==
    \E w \in WithdrawalIds : withdrawals[w].status = "rejected" /\ nCredits > 0

C15_ReferredByImmutable ==
    [][\A u \in Users :
          referred_by[u] # NULL => referred_by'[u] = referred_by[u]]_vars

\* C15, the case where it is at stake: a user who acquired a referrer through
\* an initialisation call, open to further calls
C15_ReferrerAcquired ==
    \E u \in Users : referred_by[u] # NULL /\ referred_by[u] > u

\* C16: Reject Task on a submitted lease makes the lease rejected and the
\* task available, changes no balance, inserts no commission row and keeps
\* the screenshots of the lease
C16_RejectSubmitted ==
    [][\A l \in AssignmentIds :
          (task_assignments[l].status = "submitted" /\ RejectTask(l))
          => /\ task_assignments'[l].status = "rejected"
             /\ tasks'[task_assignments[l].task_id]
             /\ users' = users
             /\ referral_earnings' = referral_earnings
             /\ task_assignments'[l].screenshots = task_assignments[l].screenshots]_vars

\* C16, the case where it is at stake: a rejected lease that still has its
\* screenshots, its task back in the pool
C16_RejectedKeepsScreenshots ==
    \E l \in AssignmentIds : /\ task_assignments[l].status = "rejected"
                             /\ task_assignments[l].screenshots > 0
                             /\ tasks[task_assignments[l].task_id]

C21_ReferrerValid ==
    \A u \in Users :
        /\ referred_by[u] # NULL => referred_by[u] # u /\ referred_by[u] \in Users
        /\ \A p \in {u, NumUsers + 1} :
              /\ AuthInitOutcome(u, p) = "ok"
              /\ referred_by[u] = NULL
                    => UpsertReferredBy(referred_by[u], ValidReferrer(u, p)) = NULL

\* C21 witness: every user has a referrer, one of them acquired by an
\* initialisation call, and the next call of that user carries its own id
C21_AllReferred ==
    /\ \A u \in Users : referred_by[u] # NULL
    /\ \E u \in Users : /\ referred_by[referred_by[u]] = u
                         /\ AuthInitOutcome(u, u) = "ok"

\* C22: a task verdict acts on a submitted lease only. No step takes a lease
\* that is not submitted to 'approved' or 'rejected'; a step that changes no
\* lease changes neither the availability of a task nor a balance nor the
\* commission postings; and no step makes available a task on which a lease
\* is in status 'assigned' after the step
C22_VerdictNeedsSubmitted ==
    [][/\ \A l \in AssignmentIds :
             /\ task_assignments[l].status # "submitted"
             /\ task_assignments'[l].status \in {"approved", "rejected"}
             => task_assignments'[l] = task_assignments[l]
       /\ task_assignments' = task_assignments
             => tasks' = tasks /\ users' = users
                /\ referral_earnings' = referral_earnings
       /\ \A t \in Tasks :
             ~tasks[t] /\ tasks'[t]
             => ~\E l \in AssignmentIds : /\ task_assignments'[l].status = "assigned"
                                          /\ task_assignments'[l].task_id = t]_vars

\* C22 witness: a task is available although a user holds it in status
\* 'assigned', and an older lease of another user on the same task has its
\* verdict
C22_ReleasedUnderLease ==
    \E l, k \in AssignmentIds :
        /\ k < l
        /\ task_assignments[l].status = "assigned"
        /\ task_assignments[k].status \in {"approved", "rejected"}
        /\ task_assignments[k].task_id = task_assignments[l].task_id
        /\ task_assignments[k].user_id # task_assignments[l].user_id
        /\ tasks[task_assignments[l].task_id]

\* C23: of the verdicts given to a lease that was submitted one takes effect
\* alone. Such a lease has at most one commission posting, and none when it
\* is rejected; once it is approved or rejected no step changes it; and a
\* main_balance goes up only in a step that takes a lease of that user to
\* 'approved'
C23_OneVerdictWins ==
    /\ [](\A l \in AssignmentIds :
            task_assignments[l].screenshots > 0 =>
               /\ Cardinality(EarningsOf(l)) <= 1
               /\ task_assignments[l].status = "rejected" => EarningsOf(l) = {})
    /\ [][/\ \A l \in AssignmentIds :
                /\ task_assignments[l].status \in {"approved", "rejected"}
                /\ task_assignments[l].screenshots > 0
                => task_assignments'[l] = task_assignments[l]
          /\ \A u \in Users :
                users'[u].main_balance > users[u].main_balance
                => \E l \in AssignmentIds :
                      /\ task_assignments[l].user_id = u
                      /\ task_assignments[l].status # "approved"
                      /\ task_assignments'[l].status = "approved"]_vars

\* C23 witness: a lease that was submitted with its screenshots is rejected
\* and has a commission posting: it had both verdicts
C23_RejectedAndPaid ==
    \E l \in AssignmentIds :
        /\ task_assignments[l].status = "rejected"
        /\ task_assignments[l].screenshots > 0
        /\ EarningsOf(l) # {}

\* C24: a withdrawal verdict acts on a pending request only: no step changes
\* a request that is approved or rejected, and a step that changes no request
\* changes no balance
C24_VerdictNeedsPending ==
    [][/\ \A w \in WithdrawalIds :
             withdrawals[w].status \in {"approved", "rejected"}
             => withdrawals'[w] = withdrawals[w]
       /\ withdrawals' = withdrawals => users' = users]_vars

\* C24 witness: the only request there is is approved, and its user holds
\* the balances of the start: the request was refunded by a rejection and
\* debited by an approval
C24_ApprovedAndRefunded ==
    \E w \in WithdrawalIds :
        /\ withdrawals[w].status = "approved"
        /\ \A o \in WithdrawalIds \ {w} : withdrawals[o].status = "none"
        /\ \E b \in InitialBalances \cup FundedBalances :
              b[withdrawals[w].user_id] = users[withdrawals[w].user_id]

C31_ReferrerOnlyAtCreation ==
    [][\A u \in Users : referred_by'[u] = referred_by[u]]_vars

\* C31, the state the upsert reaches: user 1, registered without a referrer
\* and already paid for a task, has user 2 as referrer
C31_ReferrerAfterCreation ==
    /\ referred_by[1] = 2
    /\ \E l \in AssignmentIds : /\ task_assignments[l].user_id = 1
                                /\ task_assignments[l].status = "approved"

RECURSIVE SumOf(_, _)
\* the sum of the values of a function over a finite set of its domain
SumOf(f, S) ==
    IF S = {} THEN 0
    ELSE LET x == CHOOSE y \in S : TRUE IN f[x] + SumOf(f, S \ {x})

\* C32: money is conserved step by step: the change of the sum of all
\* main_balance and referral_balance equals the prices of the leases the step
\* approves, plus the commission rows it inserts, minus the amounts of the
\* withdrawals it approves (so the sum over a run is what the claim states)
C32_MoneyConserved ==
    [][LET delta == [u \in Users |->
                        (users'[u].main_balance - users[u].main_balance)
                        + (users'[u].referral_balance - users[u].referral_balance)]
           approved == {l \in AssignmentIds :
                           /\ task_assignments'[l].status = "approved"
                           /\ task_assignments[l].status # "approved"}
           price == [l \in approved |-> TaskPrice(task_assignments'[l].task_id)]
           rows == (Len(referral_earnings) + 1)..Len(referral_earnings')
           commission == [i \in rows |-> referral_earnings'[i].amount]
           paid == {w \in WithdrawalIds :
                       /\ withdrawals'[w].status = "approved"
                       /\ withdrawals[w].status # "approved"}
           amount == [w \in paid |-> withdrawals'[w].amount]
       IN SumOf(delta, Users)
             = SumOf(price, approved) + SumOf(commission, rows)
               - SumOf(amount, paid)]_vars

\* C32, the state the scripts reach: one lease of user 1, approved, is the
\* only lease there ever was and no withdrawal was requested, yet user 1
\* holds twice the price of the task more than a starting balance
C32_PaidTwiceForOneLease ==
    /\ task_assignments[1].status = "approved"
    /\ task_assignments[1].user_id = 1
    /\ \A l \in AssignmentIds \ {1} : task_assignments[l].status = "none"
    /\ \A w \in WithdrawalIds : withdrawals[w].status = "none"
    /\ users[1].main_balance = 2 * TaskPrice(task_assignments[1].task_id)

\* C33: while a lease on a task is 'submitted' the task is out of the pool
C33_SubmittedKeepsTaskOut ==
    \A l \in AssignmentIds :
        task_assignments[l].status = "submitted"
           => ~tasks[task_assignments[l].task_id]

\* C33, the state the scripts reach: a lease on a task awaits its verdict and
\* a later lease on the same task was handed out meanwhile
C33_LeasedWhileSubmitted ==
    \E l, k \in AssignmentIds :
        /\ l < k
        /\ task_assignments[l].status = "submitted"
        /\ task_assignments[k].status = "assigned"
        /\ task_assignments[k].task_id = task_assignments[l].task_id

\* the leases of a task that hold it: status 'assigned' or 'submitted'
HoldingLeases(t) ==
    {l \in AssignmentIds : /\ task_assignments[l].task_id = t
                           /\ task_assignments[l].status \in {"assigned", "submitted"}}

C35_SingleLevelCommission ==
    [][\A l \in AssignmentIds :
          ApproveTask(l) /\ RowExists(l)
          => LET A == task_assignments[l].user_id
                 R == referred_by[A]
             IN \A v \in Users :
                   /\ v # A => users'[v].main_balance = users[v].main_balance
                   /\ v # R => users'[v].referral_balance = users[v].referral_balance]_vars

\* C35 witness: users 1 and 2 refer each other, so the referrer of the
\* referrer of performer 2 exists; one lease of user 2 was approved and paid
\* user 2 on main_balance and user 1 on referral_balance only
C35_PaidOneLevel ==
    /\ referred_by[2] = 1
    /\ referred_by[1] = 2
    /\ \E l \in AssignmentIds : /\ task_assignments[l].status = "approved"
                                /\ task_assignments[l].user_id = 2
    /\ Len(referral_earnings) = 1
    /\ users[2].main_balance = SIMPLE_TASK_PRICE
    /\ users[2].referral_balance = 0
    /\ users[1].main_balance = 0
    /\ users[1].referral_balance = Commission(SIMPLE_TASK_PRICE)

\* the moves of task_assignments.status the lifecycle allows: a row is
\* inserted 'assigned'; 'assigned' becomes 'submitted' or the row is deleted;
\* 'submitted' becomes 'approved' or 'rejected'
StatusMoves ==
    { <<"none", "assigned">>, <<"assigned", "submitted">>, <<"assigned", "deleted">>,
      <<"submitted", "approved">>, <<"submitted", "rejected">> }

\* C36: the status of a lease only moves along the lifecycle; 'approved' and
\* 'rejected' are final and no step returns a lease to 'assigned' or 'submitted'
C36_StatusMonotone ==
    [][\A l \in AssignmentIds :
          task_assignments'[l].status # task_assignments[l].status
             => <<task_assignments[l].status, task_assignments'[l].status>>
                   \in StatusMoves]_vars

\* C36, the state the scripts reach: a lease carries a verdict although it
\* holds no screenshot, which a submitted lease always does
C36_VerdictWithoutSubmission ==
    \E l \in AssignmentIds :
        /\ task_assignments[l].status \in {"approved", "rejected"}
        /\ task_assignments[l].screenshots = 0

\* the users relation the full Approve Withdrawal script writes when it runs
\* alone from the current state
ApproveWithdrawalFullUsers(w) ==
    LET u == withdrawals[w].user_id
        amount == withdrawals[w].amount
        main == users[u].main_balance
    IN [users EXCEPT ![u].main_balance = @ - DeductFromMain(main, amount),
                     ![u].referral_balance = @ - DeductFromReferral(main, amount)]

\* C37: the simplified Approve Withdrawal script does to a pending request
\* what the full script does: it approves only where the full script passes
\* its balance check, and then leaves the balances the full script leaves
C37_SimplifiedEquivalent ==
    [][\A w \in WithdrawalIds :
          ApproveWithdrawalSimplified(w) /\ withdrawals[w].status = "pending"
          => /\ ApproveWithdrawalReadOutcome(w) = "proceeds"
             /\ users' = ApproveWithdrawalFullUsers(w)
             /\ withdrawals'[w].status = "approved"]_vars

\* C37, the state where the scripts part: a request is pending for more than
\* the two balances of its user hold, the full script refuses it and the
\* simplified script commits
C37_PendingAboveBalances ==
    \E w \in WithdrawalIds :
        /\ withdrawals[w].status = "pending"
        /\ ApproveWithdrawalReadOutcome(w) = "InsufficientBalance"
        /\ UsersConstraintsOK(ApproveWithdrawalSimplifiedUsers(w))
        /\ ApproveWithdrawalSimplifiedUsers(w)[withdrawals[w].user_id]
              = [main_balance |-> 0, referral_balance |-> 0]

\* C38: at most one submitTask request of the page is in flight; while one is
\* in flight a click sends nothing; the ref is set exactly while a request is
\* in flight, and when a request settles the ref and isSubmitting are
\* cleared, so that a later click can send again
C38_OneSubmitInFlight ==
    /\ [](/\ page.inFlight <= 1
          /\ page.inFlight > 0 => ~SubmitSends
          /\ page.submitInProgressRef <=> page.inFlight > 0)
    /\ [][page'.inFlight < page.inFlight
             => ~page'.submitInProgressRef /\ ~page'.isSubmitting]_vars

\* C38 witness: the first request failed, a later click sent the second one,
\* which is in flight while the page has not rendered isSubmitting yet: only
\* the ref stands between a further click and a further request
C38_SecondSubmitInFlight ==
    /\ page.mounted
    /\ page.sent = 2
    /\ page.inFlight = 1
    /\ page.submitInProgressRef
    /\ ~page.renderedIsSubmitting

====
